---- MODULE Spec2Model ----
(***************************************************************************)
(* A model of the leptos-mview parser / expander pipeline.                 *)
(*                                                                         *)
(* The input of every parser is a sequence of token trees and a cursor     *)
(* (an index into the sequence).  A token tree is <<kind, text, inner>>:   *)
(*   "ident"   an identifier                  text = its name              *)
(*   "punct"   a punctuation token            text = "=", "-", ":", ...    *)
(*   "str"     a string literal               text = its contents          *)
(*   "num"     a numeric literal              text = its digits            *)
(*   "bool"    the literal true / false       text = "true" / "false"      *)
(*   "brace"   a {...} group                  inner = the tokens inside    *)
(*   "bracket" a [...] group                  inner = the tokens inside    *)
(* A parser is an operator from (tokens, cursor) to a result record: its   *)
(* status ("ok", "err" = a returned syn::Error, "abort" = proc_macro_error *)
(* abort!), the cursor afterwards, whether an "unexpected token" was       *)
(* recorded on the stream (syn sets it when a delimited buffer is dropped  *)
(* with tokens left), and what was parsed.                                 *)
(***************************************************************************)
EXTENDS Naturals, Sequences, FiniteSets, TLC

VARIABLES input, pos, unexpected, pc, op, ret, children, dummy, output

vars == <<input, pos, unexpected, pc, op, ret, children, dummy, output>>

(***************************************************************************)
(* Bounds of the enumerated inputs.                                        *)
(***************************************************************************)
\* the longest kebab-case identifier, in segments (a-b has two)
MaxSegs == 2
\* the most tokens that follow the attribute under test
MaxTrail == 1
\* the most top-level children of a template
MaxChildren == 2

(***************************************************************************)
(* Tokens.                                                                 *)
(***************************************************************************)
Tok(k, t, i) == <<k, t, i>>
Ident(t) == Tok("ident", t, <<>>)
Punct(t) == Tok("punct", t, <<>>)
LitStr(t) == Tok("str", t, <<>>)
LitNum(t) == Tok("num", t, <<>>)
LitBool(t) == Tok("bool", t, <<>>)
Brace(i) == Tok("brace", "", i)
Bracket(i) == Tok("bracket", "", i)

Kind(t) == t[1]
Text(t) == t[2]
Inner(t) == t[3]

\* input.peek(..) at cursor p
PeekKind(toks, p, k) == p <= Len(toks) /\ Kind(toks[p]) = k
PeekPunct(toks, p, t) == p <= Len(toks) /\ toks[p] = Punct(t)

(***************************************************************************)
(* Parsed values.                                                          *)
(***************************************************************************)
NoKey == [kt |-> "none", repr |-> "", segs |-> <<>>]
NoValue == [vk |-> "none", lit |-> "", text |-> "", body |-> <<>>]

RECURSIVE Join(_, _)
Join(segs, sep) ==
    IF Len(segs) = 0 THEN ""
    ELSE IF Len(segs) = 1 THEN segs[1]
    ELSE segs[1] \o sep \o Join(Tail(segs), sep)

\* a KebabIdent: its segments, and its hyphenated text
KebabKey(segs) == [kt |-> "kebab", repr |-> Join(segs, "-"), segs |-> segs]
\* a syn::Ident
IdentKey(name) == [kt |-> "ident", repr |-> name, segs |-> <<name>>]
\* a syn::LitStr
StrKey(text) == [kt |-> "str", repr |-> text, segs |-> <<>>]

ValueLit(k, t) == [vk |-> "Lit", lit |-> k, text |-> t, body |-> <<>>]
ValueBlock(body) == [vk |-> "Block", lit |-> "", text |-> "", body |-> body]
ValueBracket(body) == [vk |-> "Bracket", lit |-> "", text |-> "", body |-> body]

\* the result of a parser
Res(st, p, u, k, v) == [st |-> st, pos |-> p, unexp |-> u, key |-> k, value |-> v]
Ok(p, u, k, v) == Res("ok", p, u, k, v)
Err(p) == Res("err", p, FALSE, NoKey, NoValue)
Abort(p) == Res("abort", p, FALSE, NoKey, NoValue)

\* One(S): the element of a singleton.  One({f(x) : x \in {e}}) is f(e)
\* with e evaluated once: the result of a parser is bound this way before
\* the code that reads it several times.
One(S) == CHOOSE y \in S : TRUE

\* Result::unwrap_or_abort: an Err becomes an abort of the translation
unwrap_or_abort(r) == IF r.st = "err" THEN Abort(r.pos) ELSE r

(***************************************************************************)
(* Lexical primitives and values.                                          *)
(***************************************************************************)
\* KebabIdent::to_lit_str: a string literal with the identifier's text
to_lit_str(k) == StrKey(k.repr)

\* KebabIdent as tokens: one identifier, hyphens turned into underscores
KebabIdent_to_tokens(k) == <<Ident(Join(k.segs, "_"))>>

\* syn::Ident as tokens: itself
Ident_to_tokens(k) == <<Ident(k.repr)>>

\* the segments of a kebab identifier after the first: (- ident)*
RECURSIVE KebabTail(_, _, _)
KebabTail(toks, p, segs) ==
    IF PeekPunct(toks, p, "-") /\ PeekKind(toks, p + 1, "ident")
    THEN KebabTail(toks, p + 2, Append(segs, Text(toks[p + 1])))
    ELSE Ok(p, FALSE, KebabKey(segs), NoValue)

\* KebabIdent::parse
KebabIdent_parse(toks, p) ==
    IF PeekKind(toks, p, "ident")
    THEN KebabTail(toks, p + 1, <<Text(toks[p])>>)
    ELSE Err(p)

\* the words syn::Ident::parse does not accept as an identifier, in the syn
\* 1.x this source builds against: the underscore and the reserved words of
\* Rust 2015.  The words reserved since the 2018 edition (async, await, dyn,
\* try) are not among them and parse as identifiers.
ReservedWords ==
    {"_", "abstract", "as", "become", "box", "break",
     "const", "continue", "crate", "do", "else", "enum", "extern",
     "false", "final", "fn", "for", "if", "impl", "in", "let", "loop",
     "macro", "match", "mod", "move", "mut", "override", "priv", "pub",
     "ref", "return", "Self", "self", "static", "struct", "super", "trait",
     "true", "type", "typeof", "unsafe", "unsized", "use", "virtual",
     "where", "while", "yield"}

\* syn::Ident::parse: a regular identifier, never a reserved word
Ident_parse(toks, p) ==
    IF PeekKind(toks, p, "ident") /\ Text(toks[p]) \notin ReservedWords
    THEN Ok(p + 1, FALSE, IdentKey(Text(toks[p])), NoValue)
    ELSE Err(p)

\* syn::LitStr::parse: it parses a syn::Lit from the input itself, so a
\* literal that is not a string (a number, a boolean, a negative number) is
\* consumed before the Err is returned; any other token is left in place
LitStr_parse(toks, p) ==
    IF PeekKind(toks, p, "str")
    THEN Ok(p + 1, FALSE, StrKey(Text(toks[p])), NoValue)
    ELSE IF PeekKind(toks, p, "num") \/ PeekKind(toks, p, "bool") THEN Err(p + 1)
    ELSE IF PeekPunct(toks, p, "-") /\ PeekKind(toks, p + 1, "num") THEN Err(p + 2)
    ELSE Err(p)

\* <Token![=]>::parse
Eq_parse(toks, p) ==
    IF PeekPunct(toks, p, "=") THEN Ok(p + 1, FALSE, NoKey, NoValue) ELSE Err(p)

\* Value::parse: [..] is a bracket closure, {..} a block, else a literal
Value_parse(toks, p) ==
    IF PeekKind(toks, p, "bracket")
    THEN Ok(p + 1, FALSE, NoKey, ValueBracket(Inner(toks[p])))
    ELSE IF PeekKind(toks, p, "brace")
    THEN Ok(p + 1, FALSE, NoKey, ValueBlock(Inner(toks[p])))
    ELSE IF p <= Len(toks) /\ Kind(toks[p]) \in {"str", "num", "bool"}
    THEN Ok(p + 1, FALSE, NoKey, ValueLit(Kind(toks[p]), Text(toks[p])))
    ELSE Err(p)

(***************************************************************************)
(* attribute/parsing.rs                                                    *)
(***************************************************************************)
\* KebabIdentOrStr::parse: a string literal, else a kebab identifier read
\* from where the failed LitStr parse left the cursor
KebabIdentOrStr_parse(toks, p) ==
    LET str == LitStr_parse(toks, p)
    IN  IF str.st = "ok" THEN str ELSE KebabIdent_parse(toks, str.pos)

\* KebabIdentOrStr::into_lit_str
into_lit_str(k) == IF k.kt = "kebab" THEN to_lit_str(k) ELSE k

\* the parser of T in input.parse::<T>()
T_parse(T, toks, p) ==
    IF T = "KebabIdent" THEN KebabIdent_parse(toks, p)
    ELSE IF T = "Ident" THEN Ident_parse(toks, p)
    ELSE IF T = "LitStr" THEN LitStr_parse(toks, p)
    ELSE KebabIdentOrStr_parse(toks, p)

\* parse_braced::<T>: the fork is advanced over the group, T is parsed from
\* the group's interior, and the input is advanced to the fork on success.
\* Dropping the interior with tokens left records an unexpected token.
parse_braced(T, toks, p) ==
    LET fork == p
    IN  IF PeekKind(toks, fork, "brace")
        THEN LET inner == Inner(toks[fork])
                 ast == T_parse(T, inner, 1)
             IN  IF ast.st = "ok"
                 THEN Ok(fork + 1, ast.pos <= Len(inner), ast.key, NoValue)
                 ELSE Err(p)
        ELSE Err(p)

\* BracedKebabIdent::parse
BracedKebabIdent_parse(toks, p) == parse_braced("KebabIdent", toks, p)

\* BracedIdent::parse
BracedIdent_parse(toks, p) == parse_braced("Ident", toks, p)

\* into_block_value, quoting the identifier as written (hyphens kept)
into_block_value_verbatim(k) ==
    ValueBlock([i \in 1..(2 * Len(k.segs) - 1) |->
                  IF i % 2 = 1 THEN Ident(k.segs[(i + 1) \div 2]) ELSE Punct("-")])

\* BracedKebabIdent::into_block_value: the block {#ident}
BracedKebabIdent_into_block_value(k) == ValueBlock(KebabIdent_to_tokens(k))

\* BracedIdent::into_block_value: the block {#ident}
BracedIdent_into_block_value(k) == ValueBlock(Ident_to_tokens(k))

\* parse_braced_bool reading key = value on the input itself, not on a fork
parse_braced_bool_nofork(toks, p) ==
    IF PeekKind(toks, p, "brace")
    THEN LET braced_ident == BracedKebabIdent_parse(toks, p)
         IN  IF braced_ident.st # "ok" THEN Err(p)
             ELSE Ok(braced_ident.pos, braced_ident.unexp, braced_ident.key,
                     BracedKebabIdent_into_block_value(braced_ident.key))
    ELSE LET ident == KebabIdent_parse(toks, p)
         IN  IF ident.st # "ok" THEN Err(ident.pos)
             ELSE LET eq == Eq_parse(toks, ident.pos)
                  IN  IF eq.st # "ok" THEN Err(eq.pos)
                      ELSE LET value == Value_parse(toks, eq.pos)
                           IN  IF value.st # "ok" THEN Err(value.pos)
                               ELSE Ok(value.pos, FALSE, ident.key, value.value)

\* parse_braced_bool
parse_braced_bool(toks, p) ==
    IF PeekKind(toks, p, "brace")
    THEN LET braced_ident == BracedKebabIdent_parse(toks, p)
         IN  IF braced_ident.st # "ok" THEN Err(p)
             ELSE Ok(braced_ident.pos, braced_ident.unexp, braced_ident.key,
                     BracedKebabIdent_into_block_value(braced_ident.key))
    ELSE LET fork == p
             ident == KebabIdent_parse(toks, fork)
             eq == Eq_parse(toks, ident.pos)
             value == Value_parse(toks, eq.pos)
         IN  IF ident.st # "ok" THEN Err(p)
             ELSE IF eq.st # "ok" THEN Err(p)
             ELSE IF value.st # "ok" THEN Err(p)
             ELSE Ok(value.pos, FALSE, ident.key, value.value)

\* parse_str_braced
parse_str_braced(toks, p) ==
    IF PeekKind(toks, p, "brace")
    THEN LET braced_ident == BracedKebabIdent_parse(toks, p)
         IN  IF braced_ident.st # "ok" THEN Err(p)
             ELSE Ok(braced_ident.pos, braced_ident.unexp,
                     to_lit_str(braced_ident.key),
                     BracedKebabIdent_into_block_value(braced_ident.key))
    ELSE LET fork == p
             class == KebabIdentOrStr_parse(toks, fork)
             eq == Eq_parse(toks, class.pos)
             value == Value_parse(toks, eq.pos)
         IN  IF class.st # "ok" THEN Err(p)
             ELSE IF eq.st # "ok" THEN Err(p)
             ELSE IF value.st # "ok" THEN Err(p)
             ELSE Ok(value.pos, FALSE, into_lit_str(class.key), value.value)

\* parse_ident_braced reading its key with the kebab-case reader
parse_ident_braced_kebab(toks, p) == unwrap_or_abort(parse_braced_bool(toks, p))

\* parse_ident_braced: every failure is unwrap_or_abort-ed
parse_ident_braced(toks, p) ==
    IF PeekKind(toks, p, "brace")
    THEN LET ident == unwrap_or_abort(BracedIdent_parse(toks, p))
         IN  IF ident.st # "ok" THEN ident
             ELSE Ok(ident.pos, ident.unexp, ident.key,
                     BracedIdent_into_block_value(ident.key))
    ELSE LET ident == unwrap_or_abort(Ident_parse(toks, p))
         IN  IF ident.st # "ok" THEN ident
             ELSE LET eq == unwrap_or_abort(Eq_parse(toks, ident.pos))
                  IN  IF eq.st # "ok" THEN eq
                      ELSE LET value == unwrap_or_abort(Value_parse(toks, eq.pos))
                           IN  IF value.st # "ok" THEN value
                               ELSE Ok(value.pos, FALSE, ident.key, value.value)

(***************************************************************************)
(* attribute/kv.rs                                                         *)
(***************************************************************************)
\* KvAttr::parse
KvAttr_parse(toks, p) == parse_braced_bool(toks, p)

\* clone:ident - an identifier and no value
clone_key(toks, p) == Ident_parse(toks, p)

\* use:ident or use:ident={value}
use_key(toks, p) ==
    LET ident == Ident_parse(toks, p)
    IN  IF ident.st # "ok" THEN ident
        ELSE IF PeekPunct(toks, ident.pos, "=")
        THEN LET value == Value_parse(toks, ident.pos + 1)
             IN  IF value.st # "ok" THEN Err(p)
                 ELSE Ok(value.pos, FALSE, ident.key, value.value)
        ELSE Ok(ident.pos, FALSE, ident.key, NoValue)

\* next(input): the reader that parse_dir_then is given
call_next(next, toks, p) ==
    IF next = "parse_str_braced" THEN parse_str_braced(toks, p)
    ELSE IF next = "parse_ident_braced" THEN parse_ident_braced(toks, p)
    ELSE IF next = "clone" THEN clone_key(toks, p)
    ELSE use_key(toks, p)

\* parse_dir_then returning the Err of next to its caller
parse_dir_then_soft(kw, next, toks, p) ==
    IF ~PeekPunct(toks, p + 1, ":") THEN Err(p)
    ELSE IF ~(p <= Len(toks) /\ toks[p] = Ident(kw)) THEN Err(p)
    ELSE call_next(next, toks, p + 2)

\* parse_dir_then::<Kw, R>: Err, consuming nothing, unless the keyword and a
\* colon are next; after them a failure of next is an abort
parse_dir_then(kw, next, toks, p) ==
    IF ~PeekPunct(toks, p + 1, ":") THEN Err(p)
    ELSE IF ~(p <= Len(toks) /\ toks[p] = Ident(kw)) THEN Err(p)
    ELSE unwrap_or_abort(call_next(next, toks, p + 2))

(***************************************************************************)
(* Attributes, tags and elements (attribute/mod.rs, tag.rs, element.rs).   *)
(***************************************************************************)
NoAttr == [ak |-> "none", ns |-> "", key |-> NoKey, value |-> NoValue]
KvOf(r) == [ak |-> "kv", ns |-> "", key |-> r.key, value |-> r.value]
DirOf(ns, r) == [ak |-> "dir", ns |-> ns, key |-> r.key, value |-> r.value]
SpreadOf(body) == [ak |-> "spread", ns |-> "", key |-> NoKey, value |-> ValueBlock(body)]

AttrRes(st, p, u, a) == [st |-> st, pos |-> p, unexp |-> u, attr |-> a]

\* the directive namespaces that take key = value or {key}
StrKeyDirs == {"class", "style"}
IdentKeyDirs == {"on", "prop", "attr"}

\* a directive: the keyword, a colon, and what the namespace reads after them
DirectiveAttr_parse(ns, toks, p) ==
    IF ns \in StrKeyDirs THEN parse_dir_then(ns, "parse_str_braced", toks, p)
    ELSE IF ns \in IdentKeyDirs THEN parse_dir_then(ns, "parse_ident_braced", toks, p)
    ELSE IF ns = "clone" THEN parse_dir_then(ns, "clone", toks, p)
    ELSE parse_dir_then(ns, "use", toks, p)

\* {..expr}
SpreadAttr_parse(toks, p) ==
    IF PeekKind(toks, p, "brace") /\ PeekPunct(Inner(toks[p]), 1, "..")
    THEN AttrRes("ok", p + 1, FALSE, SpreadOf(Tail(Inner(toks[p]))))
    ELSE AttrRes("err", p, FALSE, NoAttr)

\* one attribute: a directive when a directive keyword and a colon are next,
\* else a key-value attribute (with its brace shorthand), else a spread
Attr_parse(toks, p) ==
    IF /\ PeekKind(toks, p, "ident")
       /\ Text(toks[p]) \in StrKeyDirs \cup IdentKeyDirs \cup {"clone", "use"}
       /\ PeekPunct(toks, p + 1, ":")
    THEN One({AttrRes(dir.st, dir.pos, dir.unexp, DirOf(Text(toks[p]), dir)) :
                 dir \in {DirectiveAttr_parse(Text(toks[p]), toks, p)}})
    ELSE One({IF kv.st = "ok" THEN AttrRes("ok", kv.pos, kv.unexp, KvOf(kv))
              ELSE SpreadAttr_parse(toks, p) :
                 kv \in {KvAttr_parse(toks, p)}})

\* zero or more attributes, until none parses
RECURSIVE Attrs_parse(_, _, _, _)
Attrs_parse(toks, p, u, acc) ==
    One({IF a.st = "abort" THEN [st |-> "abort", pos |-> a.pos, unexp |-> u, attrs |-> acc]
         ELSE IF a.st = "err" THEN [st |-> "ok", pos |-> p, unexp |-> u, attrs |-> acc]
         ELSE Attrs_parse(toks, a.pos, u \/ a.unexp, Append(acc, a.attr)) :
            a \in {Attr_parse(toks, p)}})

\* the tags that name components (PascalCase); every other tag is an HTML element
ComponentTags == {"Comp"}
IsComponent(tag) == tag \in ComponentTags

\* the tag of an element: an identifier, or slot:identifier for a slot
Tag_parse(toks, p) ==
    IF toks[p] = Ident("slot") /\ PeekPunct(toks, p + 1, ":") /\ PeekKind(toks, p + 2, "ident")
    THEN [st |-> "ok", pos |-> p + 3, tag |-> Text(toks[p + 2]), slot |-> TRUE]
    ELSE [st |-> "ok", pos |-> p + 1, tag |-> Text(toks[p]), slot |-> FALSE]

NoElem == [tag |-> "", slot |-> FALSE, attrs |-> <<>>, kids |-> <<>>]
NoChild == [ck |-> "none", value |-> NoValue, elem |-> NoElem]
ValueChild(v) == [ck |-> "Value", value |-> v, elem |-> NoElem]
ElementChild(e) == [ck |-> "Element", value |-> NoValue, elem |-> e]

ChildRes(st, p, u, c) == [st |-> st, pos |-> p, unexp |-> u, child |-> c, diag |-> ""]
KidsRes(st, p, u, k) == [st |-> st, pos |-> p, unexp |-> u, kids |-> k, diag |-> ""]

\* an abort, with its diagnostic
ChildAbort(p, diag) == [st |-> "abort", pos |-> p, unexp |-> FALSE, child |-> NoChild, diag |-> diag]
KidsAbort(p, diag) == [st |-> "abort", pos |-> p, unexp |-> FALSE, kids |-> <<>>, diag |-> diag]

\* the diagnostic of unwrap_or_abort: the message of the syn::Error
SynDiag == "syn error"
\* the diagnostic of a literal child that is not a string
ChildLitDiag == "only string literals are allowed in children"

RECURSIVE Element_parse(_, _)
RECURSIVE Child_parse(_, _)
RECURSIVE Children_loop(_, _, _, _)
RECURSIVE Children_loop_rev(_, _, _, _)

\* Children::parse: children are pushed while Child parses
Children_parse(toks, p) == Children_loop(toks, p, FALSE, <<>>)

\* Element::parse after the tag and the attributes: ';' or a child block or,
\* at the end of the enclosing children, nothing
Element_rest(toks, p, tag, attrs) ==
    LET q == attrs.pos
        el(kids) == ElementChild([tag |-> tag.tag, slot |-> tag.slot,
                                  attrs |-> attrs.attrs, kids |-> kids])
    IN  IF attrs.st = "abort" THEN ChildAbort(q, SynDiag)
        ELSE IF PeekPunct(toks, q, ";") THEN ChildRes("ok", q + 1, attrs.unexp, el(<<>>))
        ELSE IF q > Len(toks) THEN ChildRes("ok", q, attrs.unexp, el(<<>>))
        ELSE IF PeekKind(toks, q, "brace")
        THEN One({IF kids.st = "abort" THEN ChildAbort(q, kids.diag)
                  ELSE ChildRes("ok", q + 1,
                                attrs.unexp \/ kids.unexp \/ kids.pos <= Len(Inner(toks[q])),
                                el(kids.kids)) :
                     kids \in {Children_parse(Inner(toks[q]), 1)}})
        ELSE ChildRes("err", p, FALSE, NoChild)

\* Element::parse: the tag, the attributes, then ';' or a child block or,
\* at the end of the enclosing children, nothing; a failure consumes nothing
Element_parse(toks, p) ==
    IF ~PeekKind(toks, p, "ident") THEN ChildRes("err", p, FALSE, NoChild)
    ELSE One({Element_rest(toks, p, tag, attrs) :
                 tag \in {Tag_parse(toks, p)},
                 attrs \in {Attrs_parse(toks, Tag_parse(toks, p).pos, FALSE, <<>>)}})

\* Child::parse returning Err for a literal that is not a string
Child_parse_soft(toks, p) ==
    LET value == Value_parse(toks, p)
    IN  IF value.st = "ok"
        THEN IF value.value.vk = "Lit" /\ value.value.lit # "str"
             THEN ChildRes("err", p, FALSE, NoChild)
             ELSE ChildRes("ok", value.pos, FALSE, ValueChild(value.value))
        ELSE One({IF elem.st = "err" THEN ChildRes("err", elem.pos, FALSE, NoChild)
                  ELSE elem :
                     elem \in {Element_parse(toks, p)}})

\* Child::parse: a Value first (a literal must be a string, else abort),
\* then an Element
Child_parse(toks, p) ==
    LET value == Value_parse(toks, p)
    IN  IF value.st = "ok"
        THEN IF value.value.vk = "Lit" /\ value.value.lit # "str"
             THEN ChildAbort(value.pos, ChildLitDiag)
             ELSE ChildRes("ok", value.pos, FALSE, ValueChild(value.value))
        ELSE One({IF elem.st = "err" THEN ChildRes("err", elem.pos, FALSE, NoChild)
                  ELSE elem :
                     elem \in {Element_parse(toks, p)}})

\* Children::parse putting each child before the ones parsed so far
Children_loop_rev(toks, p, u, vec) ==
    One({IF child.st = "abort" THEN KidsAbort(child.pos, child.diag)
         ELSE IF child.st = "err" THEN KidsRes("ok", child.pos, u, vec)
         ELSE Children_loop_rev(toks, child.pos, u \/ child.unexp, <<child.child>> \o vec) :
            child \in {Child_parse(toks, p)}})

\* Children::parse: children are pushed while Child::parse returns Ok; the
\* first Err ends the loop and the result is Ok
Children_loop(toks, p, u, vec) ==
    One({IF child.st = "abort" THEN KidsAbort(child.pos, child.diag)
         ELSE IF child.st = "err" THEN KidsRes("ok", child.pos, u, vec)
         ELSE Children_loop(toks, child.pos, u \/ child.unexp, Append(vec, child.child)) :
            child \in {Child_parse(toks, p)}})

\* syn::parse2::<Children> returning what the parser returned, whatever is
\* left of the input
syn_parse2_Children_partial(toks) == Children_parse(toks, 1)

\* syn::parse2::<Children>: Err when an unexpected token was recorded or
\* tokens are left after the parser returned
syn_parse2_Children(toks) ==
    One({IF tree.st = "abort" THEN tree
         ELSE IF tree.unexp \/ tree.pos <= Len(toks)
         THEN KidsRes("err", tree.pos, tree.unexp, <<>>)
         ELSE tree :
            tree \in {Children_parse(toks, 1)}})

(***************************************************************************)
(* Expansion (expand.rs, element.rs) and the driver (lib.rs).              *)
(***************************************************************************)
\* an expansion: the builder expression of a value or an element, or the
\* abort raised while building it
Expansion(node, tag, attrs, value, kids, diag) ==
    [node |-> node, tag |-> tag, attrs |-> attrs, value |-> value,
     kids |-> kids, diag |-> diag]
ExpandAbort(diag) == Expansion("abort", "", <<>>, NoValue, <<>>, diag)

\* AttrDiag with no check of the node kind: every attribute is supported
AttrDiag_none(tag, a) == ""

\* the diagnostic of an attribute that its node kind does not support, ""
\* when it is supported
AttrDiag(tag, a) ==
    IF IsComponent(tag)
    THEN IF a.ak = "spread" \/ (a.ak = "dir" /\ a.ns \in {"style", "class", "prop", "attr"})
         THEN "not supported on components"
         ELSE ""
    ELSE IF a.ak = "dir" /\ a.ns \in {"attr", "clone"}
         THEN "not supported on elements"
         ELSE ""

\* the diagnostic of the first unsupported attribute of an element, or ""
RECURSIVE FirstDiag(_, _)
FirstDiag(tag, attrs) ==
    IF attrs = <<>> THEN ""
    ELSE IF AttrDiag(tag, Head(attrs)) # "" THEN AttrDiag(tag, Head(attrs))
    ELSE FirstDiag(tag, Tail(attrs))

\* the first abort among expansions, or none
RECURSIVE FirstAbort(_)
FirstAbort(exps) ==
    IF exps = <<>> THEN ExpandAbort("")
    ELSE IF Head(exps).node = "abort" THEN Head(exps)
    ELSE FirstAbort(Tail(exps))

\* Value as tokens: the literal, the block, or the closure around the body
Value_to_tokens(v) == Expansion("value", "", <<>>, v, <<>>, "")

RECURSIVE Child_to_tokens(_)

\* Element as tokens: the attributes are applied in order (an attribute the
\* node kind does not support aborts), then the children are attached
Element_to_tokens(e) ==
    IF FirstDiag(e.tag, e.attrs) # "" THEN ExpandAbort(FirstDiag(e.tag, e.attrs))
    ELSE One({IF FirstAbort(kids).diag # "" THEN FirstAbort(kids)
              ELSE Expansion(IF IsComponent(e.tag) THEN "component" ELSE "element",
                             e.tag, e.attrs, NoValue, kids, "") :
                 kids \in {[i \in 1..Len(e.kids) |-> Child_to_tokens(e.kids[i])]}})

\* Child::to_tokens
Child_to_tokens(c) ==
    IF c.ck = "Value" THEN Value_to_tokens(c.value) ELSE Element_to_tokens(c.elem)

\* Children::slot_children: the children that are slot elements
slot_children(kids) == SelectSeq(kids, LAMBDA c : c.ck = "Element" /\ c.elem.slot)

\* Children::element_children: the children that are not slots
element_children(kids) == SelectSeq(kids, LAMBDA c : ~(c.ck = "Element" /\ c.elem.slot))

\* children_fragment_tokens: the expansion of each child, in order
children_fragment_tokens(kids) == [i \in 1..Len(kids) |-> Child_to_tokens(kids[i])]

\* the output of a translation: the tokens mview_impl returned, or, after an
\* abort, what proc_macro_error emits: the diagnostic and the dummy
Output(kind, diag, dum, body) == [kind |-> kind, diag |-> diag, dummy |-> dum, body |-> body]
NoOutput == Output("none", "", "", <<>>)
AbortOutput(diag, dum) == Output("abort", diag, dum, <<>>)

SlotDiag == "slots should be inside a parent that supports slots"

\* mview_impl with the single-child test off by one
mview_expand_le1(kids, dum) ==
    IF Len(kids) <= 1
    THEN IF kids = <<>> THEN Output("single", "", "", <<>>)
         ELSE One({IF child.node = "abort" THEN AbortOutput(child.diag, dum)
                   ELSE Output("single", "", "", <<child>>) :
                      child \in {Child_to_tokens(kids[1])}})
    ELSE IF slot_children(kids) # <<>> THEN AbortOutput(SlotDiag, dum)
    ELSE One({IF FirstAbort(fragment).diag # "" THEN AbortOutput(FirstAbort(fragment).diag, dum)
              ELSE Output("fragment", "", "", fragment) :
                 fragment \in {children_fragment_tokens(element_children(kids))}})

\* mview_impl after parsing: one child is expanded as it is; otherwise a
\* slot among the children aborts, and the children expand to a fragment
mview_expand(kids, dum) ==
    IF Len(kids) = 1
    THEN One({IF child.node = "abort" THEN AbortOutput(child.diag, dum)
              ELSE Output("single", "", "", <<child>>) :
                 child \in {Child_to_tokens(kids[1])}})
    ELSE IF slot_children(kids) # <<>> THEN AbortOutput(SlotDiag, dum)
    ELSE One({IF FirstAbort(fragment).diag # "" THEN AbortOutput(FirstAbort(fragment).diag, dum)
              ELSE Output("fragment", "", "", fragment) :
                 fragment \in {children_fragment_tokens(element_children(kids))}})

(***************************************************************************)
(* Templates: up to MaxChildren top-level items.                           *)
(***************************************************************************)
Dir(ns, key, v) == <<Ident(ns), Punct(":"), Ident(key), Punct("="), v>>

AttrLists ==
    {<<>>,
     Dir("style", "a", LitStr("s")),
     Dir("class", "a", Brace(<<LitBool("true")>>)),
     Dir("prop", "a", LitStr("1")),
     Dir("attr", "a", LitStr("s")),
     Dir("on", "a", Brace(<<Ident("a")>>)),
     <<Brace(<<Punct(".."), Ident("a")>>)>>,
     <<Ident("a"), Punct("="), LitStr("s")>>,
     Dir("attr", "a", LitStr("s")) \o <<Ident("a"), Punct("="), LitStr("s")>>}

Items ==
    {<<LitStr("s")>>, <<LitNum("1")>>, <<LitBool("true")>>,
     <<Brace(<<LitNum("1")>>)>>, <<Brace(<<LitBool("true")>>)>>,
     <<Bracket(<<Ident("a")>>)>>,
     <<Ident("div")>>,
     <<Ident("div"), Brace(<<LitStr("s")>>)>>,
     <<Ident("div"), Brace(<<Ident("Comp"), Punct(";"), LitStr("s")>>)>>,
     <<Ident("div"), Brace(<<Ident("Comp")>> \o Dir("style", "a", LitStr("s")) \o <<Punct(";")>>)>>,
     <<Ident("slot"), Punct(":"), Ident("Comp"), Punct(";")>>,
     <<Ident("slot"), Punct(":"), Ident("Comp"), Brace(<<LitStr("s")>>)>>,
     <<Punct("=")>>}
    \cup {<<Ident(t)>> \o a \o <<Punct(";")>> : t \in {"div", "Comp"}, a \in AttrLists}

RECURSIVE Templates(_)
Templates(n) ==
    IF n = 0 THEN {<<>>}
    ELSE Templates(n - 1) \cup {t \o i : t \in Templates(n - 1), i \in Items}

Init ==
    /\ input \in Templates(MaxChildren)
    /\ pos = 1
    /\ unexpected = FALSE
    /\ pc = "start"
    /\ op = ""
    /\ ret = Res("none", 0, FALSE, NoKey, NoValue)
    /\ children = <<>>
    /\ dummy = ""
    /\ output = NoOutput

\* mview_impl, to the end of parsing: the dummy is set, the input is parsed
\* as Children, and a parse error is returned as a compile error
ParseTemplate ==
    /\ pc = "start"
    /\ dummy' = "()"
    /\ \E tree \in {syn_parse2_Children(input)} :
           /\ pos' = tree.pos
           /\ unexpected' = tree.unexp
           /\ ret' = tree
           /\ IF tree.st = "ok"
              THEN /\ children' = tree.kids
                   /\ pc' = "parsed"
                   /\ output' = output
              ELSE IF tree.st = "err"
              THEN /\ children' = children
                   /\ pc' = "done"
                   /\ output' = Output("compile_error", "unexpected token", "", <<>>)
              ELSE /\ children' = children
                   /\ pc' = "done"
                   /\ output' = AbortOutput(tree.diag, dummy')
    /\ op' = "parse"
    /\ UNCHANGED input

\* mview_impl, from the parsed children to its output
ExpandRoot ==
    /\ pc = "parsed"
    /\ output' = mview_expand(children, dummy)
    /\ pc' = "done"
    /\ op' = "expand"
    /\ UNCHANGED <<input, pos, unexpected, ret, children, dummy>>

Next == ParseTemplate \/ ExpandRoot

Spec == Init /\ [][Next]_vars

(***************************************************************************)
(* The attribute readers, each called once on an enumerated input.         *)
(* The input is the tag of an element followed by the tokens under test;   *)
(* the cursor starts after the tag.                                        *)
(***************************************************************************)
Names == {"a", "b"}

\* the segment lists of the kebab-case identifiers of up to MaxSegs segments
RECURSIVE SegLists(_)
SegLists(n) ==
    IF n = 0 THEN {}
    ELSE {<<x>> : x \in Names} \cup
         {Append(s, x) : s \in SegLists(n - 1), x \in Names}

\* a kebab-case identifier as it is written: a - b
KebabToks(segs) ==
    [i \in 1..(2 * Len(segs) - 1) |->
        IF i % 2 = 1 THEN Ident(segs[(i + 1) \div 2]) ELSE Punct("-")]

KeyParts ==
    {<<>>, <<LitStr("a-b")>>, <<LitNum("1")>>, <<Punct("-")>>,
     <<Ident("type")>>, <<Brace(<<Ident("type")>>)>>, <<Ident("async")>>,
     <<LitNum("1"), Ident("a")>>, <<Punct("-"), LitNum("1"), Ident("a")>>,
     <<Ident("a"), Punct("-")>>,
     <<Brace(<<>>)>>, <<Brace(<<LitNum("1")>>)>>,
     <<Brace(<<Ident("a"), Ident("b")>>)>>,
     <<Brace(<<Ident("a"), Punct("-")>>)>>}
    \cup {KebabToks(s) : s \in SegLists(MaxSegs)}
    \cup {<<Brace(KebabToks(s))>> : s \in SegLists(MaxSegs)}

SepParts == {<<>>, <<Punct("=")>>, <<Punct(":")>>}

ValueParts ==
    {<<>>, <<LitStr("s")>>, <<LitNum("1")>>, <<LitBool("true")>>,
     <<Bracket(<<Ident("a")>>)>>, <<Ident("a")>>}
    \cup {<<Brace(KebabToks(s))>> : s \in SegLists(MaxSegs)}
    \cup {<<Brace(<<Ident(Join(s, "_"))>>)>> : s \in SegLists(MaxSegs)}

RECURSIVE Trailers(_)
Trailers(n) ==
    IF n = 0 THEN {<<>>}
    ELSE Trailers(n - 1) \cup
         {Append(t, x) : t \in Trailers(n - 1), x \in {Punct(";"), Ident("b")}}

AttrInputs ==
    {<<Ident("div")>> \o k \o s \o v \o t :
        k \in KeyParts, s \in SepParts, v \in ValueParts, t \in Trailers(MaxTrail)}

\* what is written before the key of a directive: the keyword and ':', or
\* the keyword alone
DirParts ==
    {<<Ident("class"), Punct(":")>>, <<Ident("prop"), Punct(":")>>,
     <<Ident("class")>>, <<Ident("prop")>>}

DirInputs ==
    {<<Ident("div")>> \o d \o k \o s \o v :
        d \in DirParts, k \in KeyParts, s \in SepParts, v \in ValueParts}

NoRet == Res("none", 0, FALSE, NoKey, NoValue)

InitAttr ==
    /\ input \in AttrInputs \cup DirInputs
    /\ pos = Len(<<Ident("div")>>) + 1
    /\ unexpected = FALSE
    /\ pc = "ready"
    /\ op = ""
    /\ ret = NoRet
    /\ children = <<>>
    /\ dummy = ""
    /\ output = NoOutput

\* one call of a reader: the cursor and the unexpected flag of the stream
\* are what the reader left, and an abort ends the translation
Call(name, r) ==
    /\ pc = "ready"
    /\ pc' = IF r.st = "abort" THEN "aborted" ELSE "done"
    /\ op' = name
    /\ ret' = r
    /\ pos' = r.pos
    /\ unexpected' = (unexpected \/ r.unexp)
    /\ UNCHANGED <<input, children, dummy, output>>

CallParseBraced == Call("parse_braced", BracedKebabIdent_parse(input, pos))
CallBracedIdent == Call("BracedIdent", BracedIdent_parse(input, pos))
CallParseBracedBool == Call("parse_braced_bool", parse_braced_bool(input, pos))
CallParseStrBraced == Call("parse_str_braced", parse_str_braced(input, pos))
CallParseIdentBraced == Call("parse_ident_braced", parse_ident_braced(input, pos))
CallKvAttr == Call("KvAttr", KvAttr_parse(input, pos))
CallDirClass ==
    Call("parse_dir_then class", parse_dir_then("class", "parse_str_braced", input, pos))
CallDirProp ==
    Call("parse_dir_then prop", parse_dir_then("prop", "parse_ident_braced", input, pos))

NextAttr ==
    \/ CallParseBraced
    \/ CallBracedIdent
    \/ CallParseBracedBool
    \/ CallParseStrBraced
    \/ CallParseIdentBraced
    \/ CallKvAttr
    \/ CallDirClass
    \/ CallDirProp

SpecAttr == InitAttr /\ [][NextAttr]_vars

\* the cursor before the call of SpecAttr: after the tag
StartPos == Len(<<Ident("div")>>) + 1

(***************************************************************************)
(* Properties of the attribute readers (checked under SpecAttr).           *)
(***************************************************************************)
Speculative == {"parse_braced", "BracedIdent", "parse_braced_bool", "parse_str_braced"}

\* C1: whenever parse_braced_bool, parse_str_braced or parse_braced returns
\* an error, the cursor is where it was before the call.
C1_NonAdvancingFailure ==
    [][(op' \in Speculative /\ ret'.st = "err") => pos' = pos]_vars

\* C1 witness: parse_str_braced failed on a key and '=' with no valid value
\* after them, and the cursor is still before the key.
C1_Witness ==
    /\ pc = "done" /\ op = "parse_str_braced" /\ ret.st = "err"
    /\ PeekKind(input, StartPos, "ident")
    /\ PeekPunct(input, StartPos + 1, "=")
    /\ Value_parse(input, StartPos + 2).st = "err"
    /\ pos = StartPos

\* the shorthand {k} was read by parse_braced_bool, k being all of the
\* brace's interior
ShorthandRead ==
    /\ pc = "done" /\ op = "parse_braced_bool"
    /\ PeekKind(input, StartPos, "brace")
    /\ ret.st = "ok" /\ ~ret.unexp

\* what parse_braced_bool reads from  k = {body}
LongForm(k, body) ==
    parse_braced_bool(<<Ident("div")>> \o k \o <<Punct("="), Brace(body)>>, StartPos)

\* C4 as stated: {k} yields the same (key, value) as k={k}, for every
\* kebab-case identifier k.
C4_Original ==
    ShorthandRead =>
        LET k == Inner(input[StartPos])
            long == LongForm(k, k)
        IN  long.st = "ok" /\ long.key = ret.key /\ long.value = ret.value

\* C4 amended: {k} yields the same (key, value) as k={k_}, where k_ is k with
\* its hyphens replaced by underscores (k itself when k has no hyphen): the
\* key is k and the value is a Block holding the one identifier k_.
C4_ShorthandEquivalence ==
    ShorthandRead =>
        LET k == Inner(input[StartPos])
            k_ == <<Ident(Join(ret.key.segs, "_"))>>
            long == LongForm(k, k_)
        IN  /\ long.st = "ok" /\ long.key = ret.key /\ long.value = ret.value
            /\ ret.key = KebabKey([i \in 1..((Len(k) + 1) \div 2) |-> Text(k[2 * i - 1])])
            /\ ret.value.vk = "Block" /\ ret.value.body = k_
            /\ (Len(k) = 1 => k_ = k)

\* C4 witness: the shorthand of a hyphenated identifier was read.
C4_Witness == ShorthandRead /\ Len(Inner(input[StartPos])) > 1

\* C5: a bare kebab-case identifier with no '=' after it parses as a KvAttr
\* whose value is the literal true, as flag=true does.
C5_BooleanSugar ==
    (/\ pc = "done" /\ op = "KvAttr"
     /\ KebabIdent_parse(input, StartPos).st = "ok"
     /\ ~PeekPunct(input, KebabIdent_parse(input, StartPos).pos, "="))
    => LET k == KebabIdent_parse(input, StartPos)
           long == KvAttr_parse(SubSeq(input, 1, k.pos - 1)
                                  \o <<Punct("="), LitBool("true")>>, StartPos)
       IN  /\ ret.st = "ok"
           /\ ret.key = k.key /\ ret.value = ValueLit("bool", "true")
           /\ ret.key = long.key /\ ret.value = long.value

\* the key as it is written at the cursor: a string literal, a kebab-case
\* identifier, or either of them alone inside braces
WrittenKey ==
    IF PeekKind(input, StartPos, "str") THEN Text(input[StartPos])
    ELSE IF PeekKind(input, StartPos, "ident")
    THEN KebabIdent_parse(input, StartPos).key.repr
    ELSE IF PeekKind(input, StartPos, "brace")
            /\ KebabIdent_parse(Inner(input[StartPos]), 1).st = "ok"
    THEN KebabIdent_parse(Inner(input[StartPos]), 1).key.repr
    ELSE ""

\* the key is written at the cursor in one of the three forms: a string
\* literal, a kebab-case identifier, or the brace shorthand
KeyWritten ==
    \/ PeekKind(input, StartPos, "str")
    \/ PeekKind(input, StartPos, "ident")
    \/ PeekKind(input, StartPos, "brace")

\* the tokens at the cursor are  key = value  with the key read by Key
KeyEqValueAhead(T) ==
    /\ T_parse(T, input, StartPos).st = "ok"
    /\ PeekPunct(input, T_parse(T, input, StartPos).pos, "=")
    /\ Value_parse(input, T_parse(T, input, StartPos).pos + 1).st = "ok"

Hyphenated(toks, p) == KebabIdent_parse(toks, p).st = "ok"
                       /\ Len(KebabIdent_parse(toks, p).key.segs) > 1

\* C10: parse_str_braced accepts a kebab-case identifier, a string literal
\* or the brace shorthand as key and returns a string literal with the same
\* text; parse_ident_braced returns a plain identifier only, and accepts
\* neither a string-literal key nor a hyphenated key.
C10_DirectiveKeys ==
    /\ (op = "parse_str_braced" /\ ret.st = "ok")
         => ret.key.kt = "str" /\ (KeyWritten => ret.key.repr = WrittenKey)
    /\ (op = "parse_str_braced"
          /\ (\/ KeyEqValueAhead("KebabIdent")
              \/ KeyEqValueAhead("LitStr")
              \/ BracedKebabIdent_parse(input, StartPos).st = "ok"))
         => ret.st = "ok"
    /\ (op = "parse_ident_braced" /\ ret.st = "ok")
         => /\ ret.key.kt = "ident" /\ Len(ret.key.segs) = 1
            /\ \/ input[StartPos] = Ident(ret.key.repr)
               \/ /\ PeekKind(input, StartPos, "brace")
                  /\ Inner(input[StartPos])[1] = Ident(ret.key.repr)
    /\ (op = "parse_ident_braced"
          /\ (\/ PeekKind(input, StartPos, "str")
              \/ Hyphenated(input, StartPos)
              \/ /\ PeekKind(input, StartPos, "brace")
                 /\ Hyphenated(Inner(input[StartPos]), 1)))
         => ~(ret.st = "ok" /\ ~ret.unexp)

\* C10 witness: parse_str_braced returned the string literal "a-b" for the
\* kebab-case key a-b.
C10_Witness ==
    /\ pc = "done" /\ op = "parse_str_braced" /\ ret.st = "ok"
    /\ PeekKind(input, StartPos, "ident") /\ Hyphenated(input, StartPos)
    /\ ret.key = StrKey("a-b")

(***************************************************************************)
(* Properties of the translation (checked under Spec).                     *)
(***************************************************************************)
\* the first token that is not a string literal, a block or a bracket
\* closure: every token before it is a Value child
RECURSIVE FirstNonValue(_, _)
FirstNonValue(toks, p) ==
    IF p <= Len(toks) /\ Kind(toks[p]) \in {"str", "brace", "bracket"}
    THEN FirstNonValue(toks, p + 1)
    ELSE p

LiteralChildAhead ==
    /\ FirstNonValue(input, 1) <= Len(input)
    /\ Kind(input[FirstNonValue(input, 1)]) \in {"num", "bool"}

\* C2: a numeric or boolean literal in child position aborts the whole
\* translation with a diagnostic (it is not a soft Err); a string literal
\* child is a Value child, and the numeric or boolean literal in braces is a
\* Block Value child.
C2_ChildLiteral ==
    /\ (pc = "done" /\ LiteralChildAhead)
         => /\ ret.st = "abort"
            /\ output.kind = "abort" /\ output.diag = ChildLitDiag
    /\ PeekKind(input, 1, "str")
         => /\ Child_parse(input, 1).st = "ok"
            /\ pc = "parsed" => children[1] = ValueChild(ValueLit("str", Text(input[1])))
    /\ PeekKind(input, 1, "brace")
         => /\ Child_parse(input, 1).st = "ok"
            /\ pc = "parsed" => children[1] = ValueChild(ValueBlock(Inner(input[1])))

\* C2 witness: the translation aborted on a numeric literal that follows a
\* string child.
C2_Witness ==
    /\ pc = "done" /\ output.kind = "abort"
    /\ Len(input) = 2 /\ Kind(input[1]) = "str" /\ Kind(input[2]) = "num"

\* C3: the single child is expanded directly, with no fragment, exactly when
\* there is one top-level child; zero or two or more children (no slot among
\* them) give one fragment holding each child's expansion in source order.
C3_SingleOrFragment ==
    (pc = "done" /\ op = "expand") =>
        /\ output.kind \in {"single", "fragment", "abort"}
        /\ output.kind = "single" <=>
              (Len(children) = 1 /\ Child_to_tokens(children[1]).node # "abort")
        /\ output.kind = "single" => output.body = <<Child_to_tokens(children[1])>>
        /\ output.kind = "fragment" <=>
              /\ Len(children) # 1
              /\ slot_children(children) = <<>>
              /\ \A i \in 1..Len(children) : Child_to_tokens(children[i]).node # "abort"
        /\ output.kind = "fragment" =>
              /\ Len(output.body) = Len(children)
              /\ \A i \in 1..Len(children) : output.body[i] = Child_to_tokens(children[i])

\* C3 witness: a fragment of two different children, in source order.
C3_Witness ==
    /\ pc = "done" /\ output.kind = "fragment"
    /\ Len(children) = 2 /\ Len(output.body) = 2
    /\ output.body[1] # output.body[2]
    /\ output.body[1] = Child_to_tokens(children[1])

\* C6: a slot element among the top-level children, whatever their number,
\* aborts with the slot diagnostic and nothing is expanded.
C6_NoSlotAtRoot ==
    (pc = "done" /\ op = "expand" /\ slot_children(children) # <<>>)
        => output.kind = "abort" /\ output.diag = SlotDiag

\* C7: on every unrecoverable error - a parse error of the top-level
\* Children as well as an abort - the output holds the inert expression ()
\* together with the diagnostic.
C7_DummyOnEveryError ==
    (pc = "done" /\ output.kind \in {"compile_error", "abort"})
        => output.diag # "" /\ output.dummy = "()"

\* style:, class:, prop: directives and spread attributes
Restricted(a) == a.ak = "spread" \/ (a.ak = "dir" /\ a.ns \in {"style", "class", "prop"})

\* the one top-level child is an element without children
SingleElement ==
    /\ pc = "done" /\ op = "expand"
    /\ Len(children) = 1 /\ children[1].ck = "Element"
    /\ children[1].elem.kids = <<>>

\* C8: a style:, class: or prop: directive or a spread attribute aborts on a
\* Component and expands on an HTML element; the attribute has parsed by then.
C8_DirectiveLegality ==
    SingleElement =>
        LET e == children[1].elem
        IN  /\ (IsComponent(e.tag) /\ \E i \in 1..Len(e.attrs) : Restricted(e.attrs[i]))
                 => output.kind = "abort" /\ output.diag = "not supported on components"
            /\ (~IsComponent(e.tag) /\ \A i \in 1..Len(e.attrs) : Restricted(e.attrs[i]))
                 => /\ output.kind = "single"
                    /\ output.body[1].node = "element"
                    /\ output.body[1].attrs = e.attrs

\* C8 witness: a Component with a parsed style: directive aborted at expansion.
C8_Witness ==
    /\ SingleElement /\ IsComponent(children[1].elem.tag)
    /\ Len(children[1].elem.attrs) = 1
    /\ children[1].elem.attrs[1].ns = "style"
    /\ ret.st = "ok" /\ output.kind = "abort"

\* C9: an attr: directive on an HTML element aborts the translation.
C9_AttrOnElement ==
    (/\ SingleElement /\ ~IsComponent(children[1].elem.tag)
     /\ \E i \in 1..Len(children[1].elem.attrs) :
           children[1].elem.attrs[i].ak = "dir" /\ children[1].elem.attrs[i].ns = "attr")
    => output.kind = "abort" /\ output.diag = "not supported on elements" /\ output.body = <<>>

\* C9 witness: the element with attr: followed by a key-value attribute.
C9_Witness ==
    /\ SingleElement /\ children[1].elem.tag = "div"
    /\ Len(children[1].elem.attrs) = 2
    /\ children[1].elem.attrs[1].ns = "attr"
    /\ children[1].elem.attrs[2].ak = "kv"
    /\ output.kind = "abort"

(***************************************************************************)
(* The failure modes of the attribute readers (checked under SpecAttr).    *)
(***************************************************************************)
\* a kebab-case identifier and '=' are at the cursor and no Value parses
\* after them
KeyEqNoValue ==
    /\ KebabIdent_parse(input, StartPos).st = "ok"
    /\ PeekPunct(input, KebabIdent_parse(input, StartPos).pos, "=")
    /\ Value_parse(input, KebabIdent_parse(input, StartPos).pos + 1).st # "ok"

\* C11: when KvAttr parsing finds an identifier and '=' with no valid value
\* after them, the translation is aborted; no Err is returned to the caller.
C11_KvAttrAbortsWithoutValue ==
    (pc # "ready" /\ op = "KvAttr" /\ KeyEqNoValue) => pc = "aborted" /\ ret.st = "abort"

\* the calls of parse_dir_then, the keyword Kw and the reader next of each
DirOps == {"parse_dir_then class", "parse_dir_then prop"}
DirKw(o) == IF o = "parse_dir_then class" THEN "class" ELSE "prop"
DirNext(o) == IF o = "parse_dir_then class" THEN "parse_str_braced" ELSE "parse_ident_braced"

\* the next two tokens at the cursor are the keyword kw and ':'
KwColonAhead(kw) ==
    /\ PeekKind(input, StartPos, "ident") /\ Text(input[StartPos]) = kw
    /\ PeekPunct(input, StartPos + 1, ":")

\* C12: parse_dir_then returns Err exactly when the next two tokens are not
\* the keyword and ':', and then the cursor has not moved; when they are, both
\* are consumed and the outcome is Ok or an abort of the translation: a
\* failure of next is an abort, after which no reader is called again.
C12_DirCommitPoint ==
    (pc # "ready" /\ op \in DirOps) =>
        /\ (ret.st = "err") <=> ~KwColonAhead(DirKw(op))
        /\ ret.st = "err" => pos = StartPos
        /\ KwColonAhead(DirKw(op)) =>
              /\ ret.st \in {"ok", "abort"}
              /\ pos >= StartPos + 2
              /\ (ret.st = "abort") <=> (call_next(DirNext(op), input, StartPos + 2).st # "ok")
              /\ (ret.st = "abort") <=> (pc = "aborted")
              /\ ret.st = "abort" => ~ENABLED NextAttr

\* C12 witness: after class and ':' the key and '=' had no value after them,
\* parse_str_braced returned Err, and parse_dir_then aborted past the colon.
C12_Witness ==
    /\ pc = "aborted" /\ op = "parse_dir_then class" /\ KwColonAhead("class")
    /\ PeekKind(input, StartPos + 2, "ident")
    /\ PeekPunct(input, StartPos + 3, "=")
    /\ parse_str_braced(input, StartPos + 2).st = "err"
    /\ ret.st = "abort" /\ pos >= StartPos + 2

\* what parse_ident_braced cannot parse: a brace whose interior does not
\* begin with a plain identifier, or, without a brace, a key that is not a
\* plain identifier, a missing '=', or no Value after the '='
IdentBracedMalformed ==
    IF PeekKind(input, StartPos, "brace")
    THEN Ident_parse(Inner(input[StartPos]), 1).st # "ok"
    ELSE \/ Ident_parse(input, StartPos).st # "ok"
         \/ ~PeekPunct(input, StartPos + 1, "=")
         \/ Value_parse(input, StartPos + 2).st # "ok"

\* C14: when parse_ident_braced cannot parse its input it returns Err to its
\* caller and the cursor is where it was before the call.
C14_IdentBracedSoftErr ==
    (pc # "ready" /\ op = "parse_ident_braced" /\ IdentBracedMalformed)
    => ret.st = "err" /\ pc = "done" /\ pos = StartPos

(***************************************************************************)
(* Children::parse and Child::parse, each called once on a template that   *)
(* may end in tokens that begin no child.                                  *)
(***************************************************************************)
Leftovers ==
    {<<>>, <<Punct("=")>>, <<Punct(";")>>,
     <<Ident("div"), Punct("=")>>,
     <<Ident("div"), Ident("a"), Punct("="), Punct(";")>>}

\* one child as it is written, or the start of one that aborts
ChildItems ==
    {<<LitStr("s")>>, <<LitNum("1")>>,
     <<Brace(<<LitNum("1")>>)>>, <<Bracket(<<Ident("a")>>)>>,
     <<Ident("div"), Punct(";")>>,
     <<Ident("div"), Brace(<<LitStr("s")>>)>>,
     <<Ident("div"), Brace(<<Ident("Comp"), Punct(";"), LitStr("s")>>)>>,
     <<Ident("Comp")>> \o Dir("class", "a", LitStr("s")) \o <<Punct(";")>>,
     <<Ident("div"), Ident("on"), Punct(":"), Punct(";")>>}

RECURSIVE ChildTemplates(_)
ChildTemplates(n) ==
    IF n = 0 THEN {<<>>}
    ELSE ChildTemplates(n - 1) \cup {t \o i : t \in ChildTemplates(n - 1), i \in ChildItems}

ChildInputs == {t \o l : t \in ChildTemplates(MaxChildren), l \in Leftovers}

InitChildren ==
    /\ input \in ChildInputs
    /\ pos = 1
    /\ unexpected = FALSE
    /\ pc = "ready"
    /\ op = ""
    /\ ret = KidsRes("none", 0, FALSE, <<>>)
    /\ children = <<>>
    /\ dummy = ""
    /\ output = NoOutput

\* input.parse::<Children>()
CallChildren ==
    /\ pc = "ready"
    /\ \E tree \in {Children_parse(input, pos)} :
           /\ ret' = tree
           /\ pos' = tree.pos
           /\ unexpected' = (unexpected \/ tree.unexp)
           /\ children' = tree.kids
           /\ pc' = IF tree.st = "abort" THEN "aborted" ELSE "done"
    /\ op' = "Children"
    /\ UNCHANGED <<input, dummy, output>>

\* input.parse::<Child>()
CallChild ==
    /\ pc = "ready"
    /\ \E child \in {Child_parse(input, pos)} :
           /\ ret' = [KidsRes(child.st, child.pos, child.unexp,
                              IF child.st = "ok" THEN <<child.child>> ELSE <<>>)
                         EXCEPT !.diag = child.diag]
           /\ pos' = child.pos
           /\ unexpected' = (unexpected \/ child.unexp)
           /\ children' = IF child.st = "ok" THEN <<child.child>> ELSE <<>>
           /\ pc' = IF child.st = "abort" THEN "aborted" ELSE "done"
    /\ op' = "Child"
    /\ UNCHANGED <<input, dummy, output>>

NextChildren == CallChildren \/ CallChild

SpecChildren == InitChildren /\ [][NextChildren]_vars

(***************************************************************************)
(* Properties of Children::parse (checked under SpecChildren).             *)
(***************************************************************************)
\* where the n-th attempt at a child starts: the first at the start of the
\* input, each later one where the attempt before it left the cursor
RECURSIVE ChildStart(_)
ChildStart(n) ==
    IF n = 1 THEN 1 ELSE Child_parse(input, ChildStart(n - 1)).pos

\* the first attempt that does not return a child
FirstStop ==
    CHOOSE n \in 1..(Len(input) + 1) :
        /\ Child_parse(input, ChildStart(n)).st # "ok"
        /\ \A m \in 1..(n - 1) : Child_parse(input, ChildStart(m)).st = "ok"

\* neither a Value nor an Element parses at position p of the input
NoChildAt(p) ==
    Value_parse(input, p).st # "ok" /\ Element_parse(input, p).st = "err"

\* the result is the children parsed before the first attempt that failed,
\* in source order, a Value wherever a Value parses, and the cursor is at
\* that attempt, where neither a Value nor an Element parses
ParsedSoFar ==
    /\ ret.st = "ok" /\ pc = "done"
    /\ Len(ret.kids) = FirstStop - 1
    /\ \A i \in 1..Len(ret.kids) :
          /\ ret.kids[i] = Child_parse(input, ChildStart(i)).child
          /\ ChildStart(i) < ChildStart(i + 1)
          /\ (ret.kids[i].ck = "Value") <=> (Value_parse(input, ChildStart(i)).st = "ok")
    /\ pos = ChildStart(FirstStop)
    /\ NoChildAt(pos)
    /\ Children_parse(SubSeq(input, 1, pos - 1), 1).kids = ret.kids
    /\ Children_parse(SubSeq(input, 1, pos - 1), 1).pos = pos

\* C13 as stated: on any input Children parsing returns the sequence of
\* children parsed so far and leaves the cursor at the first position where
\* no child parses.
C13_Original ==
    (pc # "ready" /\ op = "Children") => ParsedSoFar

\* C13 amended: Children parsing never returns Err. Unless the attempt at a
\* child aborts the translation, it returns the children parsed so far, in
\* source order, a Value being tried before an Element, and leaves the
\* cursor at the first position where neither parses, the failed attempt
\* having consumed nothing; when no child parses at the start of the input
\* the result is the empty sequence. It aborts exactly when the first
\* attempt that returns no child aborts.
C13_ChildrenNeverErr ==
    /\ (pc # "ready" /\ op = "Children") =>
          /\ ret.st \in {"ok", "abort"}
          /\ (ret.st = "abort") <=> (Child_parse(input, ChildStart(FirstStop)).st = "abort")
          /\ ret.st = "ok" => ParsedSoFar
          /\ NoChildAt(1) => ret.st = "ok" /\ ret.kids = <<>> /\ pos = 1
    /\ (pc # "ready" /\ op = "Child" /\ ret.st = "err") => pos = 1 /\ NoChildAt(1)

\* C13 witness: a Value and then an Element were returned, in that order,
\* and the cursor is at the tokens left after them, an element that fails
\* after its tag.
C13_Witness ==
    /\ pc = "done" /\ op = "Children" /\ ret.st = "ok"
    /\ Len(ret.kids) = 2
    /\ ret.kids[1].ck = "Value" /\ ret.kids[2].ck = "Element"
    /\ pos <= Len(input) /\ PeekKind(input, pos, "ident")
    /\ NoChildAt(pos)

(***************************************************************************)
(* The whole input must be children (checked under Spec).                  *)
(***************************************************************************)
\* Children::parse returned and tokens are left after the last child
TokensLeft ==
    /\ Children_parse(input, 1).st = "ok"
    /\ Children_parse(input, 1).pos <= Len(input)

\* C15: mview_impl produces an expansion only when the top-level Children
\* parse consumed the entire input; when a token is left after the last
\* child that parsed, the output is a compile error and nothing is expanded,
\* the children parsed before the leftover tokens included.
C15_WholeInputOrError ==
    /\ output.kind \in {"single", "fragment"} =>
          /\ Children_parse(input, 1).st = "ok"
          /\ Children_parse(input, 1).pos = Len(input) + 1
          /\ children = Children_parse(input, 1).kids
    /\ TokensLeft => pc # "parsed"
    /\ (pc = "done" /\ TokensLeft) =>
          /\ op = "parse" /\ ret.st = "err"
          /\ output.kind = "compile_error" /\ output.body = <<>>
          /\ children = <<>>

\* C15 witness: an element parsed, a token that begins no child followed
\* it, and the output is a compile error with no expansion of the element.
C15_Witness ==
    /\ pc = "done" /\ TokensLeft
    /\ Len(Children_parse(input, 1).kids) = 1
    /\ Children_parse(input, 1).kids[1].ck = "Element"
    /\ output.kind = "compile_error" /\ output.body = <<>>

====
